---- MODULE Spec2Model ----
(***************************************************************************)
(* Model of mandelbrot-wgpu (src/src/main.rs): one run of main(), from     *)
(* start-up to the written image.pgm or to the fault that ends the run.    *)
(* The GPU device, the file system and the logging set-up are the          *)
(* environment: what they answer is a nondeterministic choice, what main() *)
(* does with the answer is translated from the code.                       *)
(***************************************************************************)
EXTENDS Integers, Sequences, FiniteSets, TLC

\* ------------------------------------------------------------ constants
\* main.rs:8-9
IMAGE_WIDTH == 4000
IMAGE_HEIGHT == 3000
\* mem::size_of::<u32>(), main.rs:108
SizeOfU32 == 4
\* mem::size_of::<Vec2U>(): two u32 fields, repr(C), main.rs:213-218
SizeOfVec2U == 8
\* the step of step_by, main.rs:190
SampleStride == 4
\* the upper end of the debug slice result[0..32], main.rs:195
DebugSliceEnd == 32
\* significand width of an f32 (24 bits: 23 stored and the hidden one)
F32Mantissa == 24

\* ------------------------------------------------------------ bounds
\* device limits 0..MaxInvocations are enumerated; wgpu's default limit for
\* max_compute_invocations_per_workgroup, 256, lies inside the range
MaxInvocations == 260

\* limits beyond 2^24, where `as f32` and f32::sqrt round: next to 4098^2
LargeLimits == {16777216, 16777217, 16785408, 16793601, 16793602, 16793603, 16793604}

Limits == (0..MaxInvocations) \cup LargeLimits

\* ------------------------------------------------------------ arithmetic
RECURSIVE Pow2(_)
Pow2(n) == IF n = 0 THEN 1 ELSE 2 * Pow2(n - 1)

\* floor(log2(n)) for n >= 1
RECURSIVE ILog2(_)
ILog2(n) == IF n < 2 THEN 0 ELSE 1 + ILog2(n \div 2)

\* floor(sqrt(x)) for 0 <= x < 46336^2: the block of 256 roots that holds
\* it, then the root inside the block
ISqrt(x) ==
    LET h == CHOOSE k \in 0..180 :
                 (256 * k) * (256 * k) <= x /\ x < (256 * (k + 1)) * (256 * (k + 1))
    IN  CHOOSE s \in (256 * h)..(256 * h + 255) : s * s <= x /\ x < (s + 1) * (s + 1)

\* `n as f32` for a u32 n: the nearest value with a 24-bit significand, ties
\* to even.  The result is an integer again (every f32 >= 2^23 is one).
U32AsF32(n) ==
    IF n < Pow2(F32Mantissa) THEN n
    ELSE LET ulp == Pow2(ILog2(n) - (F32Mantissa - 1))
             q   == n \div ulp
             r   == n % ulp
         IN  IF 2 * r < ulp THEN q * ulp
             ELSE IF 2 * r > ulp THEN (q + 1) * ulp
             ELSE IF q % 2 = 0 THEN q * ulp ELSE (q + 1) * ulp

\* `x.sqrt() as u32` for an f32 x holding an integer: the correctly rounded
\* square root, truncated.  With s = floor(sqrt(x)) and x not a square, the
\* root lies in (s, s+1); it rounds up to s+1 exactly when it is within half
\* an ulp of s+1, i.e. when (s+1)^2 - x <= s / 2^(23 - floor(log2 s)).
F32SqrtAsU32(x) ==
    LET s == ISqrt(x)
    IN  IF s * s = x \/ s = 0 THEN s
        ELSE LET d == (s + 1) * (s + 1) - x
                 t == (F32Mantissa - 1) - ILog2(s)
             IN  IF d <= s \div Pow2(t) THEN s + 1 ELSE s

\* (max_compute_invocations_per_workgroup as f32).sqrt() as u32, main.rs:36-37
WorkgroupWidth(max_invocations) == F32SqrtAsU32(U32AsF32(max_invocations))

\* main.rs:108: IMAGE_WIDTH as u64 * IMAGE_HEIGHT as u64 * size_of::<u32>() as u64
StagingSize == IMAGE_WIDTH * IMAGE_HEIGHT * SizeOfU32

\* a collect() without the step_by: every byte, not every fourth
StepByCountEveryByte(n) == n

\* the number of items of iter().step_by(4) over n bytes, main.rs:189-192
StepByCount(n) == IF n = 0 THEN 0 ELSE ((n - 1) \div SampleStride) + 1

\* ------------------------------------------------------------ formatting
Digits == <<"0", "1", "2", "3", "4", "5", "6", "7", "8", "9">>

\* Display of a u32: decimal, no padding
RECURSIVE Dec(_)
Dec(n) == IF n < 10 THEN <<Digits[n + 1]>>
          ELSE Dec(n \div 10) \o <<Digits[(n % 10) + 1]>>

\* format!("P5\n{} {}\n255\n", w, h), main.rs:204
Header(w, h) ==
    <<"P", "5", "\n">> \o Dec(w) \o <<" ">> \o Dec(h) \o <<"\n", "2", "5", "5", "\n">>

\* ------------------------------------------------------------ state
VARIABLES
    pc,               \* the statement of main() that runs next
    outcome,          \* "running", "ok" (main returned Ok) or "fault"
    fault,            \* what ended the run, "none" while there is none
    limit,            \* device.limits().max_compute_invocations_per_workgroup
    workgroup_width,  \* main.rs:36
    buffers,          \* the device buffers created so far: [label, size]
    commands,         \* the commands recorded into the encoder, in order
    submitted,        \* the command batches handed to queue.submit, in order
    mapState,         \* staging buffer: "unmapped", "pending", "mapped", "failed"
    cb,               \* the map_async callback: "none", "registered", "called", "dropped"
    chan,             \* the mpsc channel's queue
    txAlive,          \* the Sender exists (it is owned by the callback)
    rxAlive,          \* the Receiver exists
    sendFailed,       \* tx.send returned Err (the unwrap would panic)
    recvResult,       \* what rx.recv() returned: "none", "ok", "err", "closed"
    hasResult,        \* the Vec<u8> result exists
    resultLen,        \* its length
    file,             \* image.pgm: [exists, header, payload]
    log               \* the host-side events of the run, in order

vars == <<pc, outcome, fault, limit, workgroup_width, buffers, commands, submitted,
          mapState, cb, chan, txAlive, rxAlive, sendFailed, recvResult, hasResult,
          resultLen, file, log>>

gpuVars  == <<buffers, commands, submitted>>
chanVars == <<cb, chan, txAlive, sendFailed, recvResult>>
dataVars == <<hasResult, resultLen>>

\* image.pgm before the run: absent, or the image an earlier run left
NoFile == [exists |-> FALSE, header |-> <<>>, payload |-> 0]
EarlierImage == [exists |-> TRUE, header |-> Header(IMAGE_WIDTH, IMAGE_HEIGHT),
                 payload |-> IMAGE_WIDTH * IMAGE_HEIGHT]

Init ==
    /\ pc = "install"
    /\ outcome = "running"
    /\ fault = "none"
    /\ limit \in Limits
    /\ workgroup_width = 0
    /\ buffers = {}
    /\ commands = <<>>
    /\ submitted = <<>>
    /\ mapState = "unmapped"
    /\ cb = "none"
    /\ chan = <<>>
    /\ txAlive = FALSE
    /\ rxAlive = FALSE
    /\ sendFailed = FALSE
    /\ recvResult = "none"
    /\ hasResult = FALSE
    /\ resultLen = 0
    /\ file \in {NoFile, EarlierImage}
    /\ log = <<>>

\* ------------------------------------------------------------ helpers
\* main() goes on with the next statement
Goto(next) == pc' = next /\ outcome' = outcome /\ fault' = fault /\ rxAlive' = rxAlive

\* main() ends with an error (`?`) or a panic; its locals, the Receiver among
\* them, are dropped
Fail(kind) == pc' = "exited" /\ outcome' = "fault" /\ fault' = kind /\ rxAlive' = FALSE

Emit(ev) == log' = Append(log, ev)

BufferSize(label) ==
    IF \E b \in buffers : b.label = label
    THEN (CHOOSE b \in buffers : b.label = label).size
    ELSE 0

\* ------------------------------------------------------------ set-up
\* main.rs:12-21: color_eyre::install()?, tracing try_init()...?
InstallLogging ==
    /\ pc = "install"
    /\ \E ok \in BOOLEAN :
         IF ok THEN Goto("request_adapter") ELSE Fail("InitFault")
    /\ UNCHANGED <<limit, workgroup_width, gpuVars, mapState, chanVars, dataVars, file, log>>

\* main.rs:23-31: request_adapter(...).ok_or_else(...)?
RequestAdapter ==
    /\ pc = "request_adapter"
    /\ \E found \in BOOLEAN :
         IF found THEN Goto("request_device") ELSE Fail("CapabilityFault")
    /\ UNCHANGED <<limit, workgroup_width, gpuVars, mapState, chanVars, dataVars, file, log>>

\* main.rs:32-34: request_device(...)?
RequestDevice ==
    /\ pc = "request_device"
    /\ \E granted \in BOOLEAN :
         IF granted THEN Goto("plan") ELSE Fail("CapabilityFault")
    /\ UNCHANGED <<limit, workgroup_width, gpuVars, mapState, chanVars, dataVars, file, log>>

\* main.rs:36-44: the workgroup edge and the assertion on it (the u32 product
\* cannot wrap for the limits modelled: the edge stays below 2^16)
PlanWorkgroup ==
    /\ pc = "plan"
    /\ LET e == WorkgroupWidth(limit)
       IN  /\ workgroup_width' = e
           /\ IF e * e <= limit THEN Goto("load_shader") ELSE Fail("AssertionPanic")
    /\ Emit("plan")
    /\ UNCHANGED <<limit, gpuVars, mapState, chanVars, dataVars, file>>

\* main.rs:46-50: fs::read_to_string("mandelbrot.wgsl")?
LoadShader ==
    /\ pc = "load_shader"
    /\ \E readable \in BOOLEAN :
         IF readable THEN Goto("create_buffers") ELSE Fail("IOFault")
    /\ UNCHANGED <<limit, workgroup_width, gpuVars, mapState, chanVars, dataVars, file, log>>

\* main.rs:98-105
ImageSizeBuffer == [label |-> "image size buffer", size |-> SizeOfVec2U]

\* main.rs:106-111
StagingBuffer == [label |-> "staging buffer", size |-> StagingSize]

\* a storage buffer of one byte for a pixel, not one u32
StorageBufferOfBytes ==
    [label |-> "storage buffer", size |-> IMAGE_WIDTH * IMAGE_HEIGHT]

\* main.rs:112-117: size: staging_buffer.size()
StorageBuffer == [label |-> "storage buffer", size |-> StagingBuffer.size]

\* main.rs:98-119 (the layouts and the pipeline of 52-96 hold no state of
\* their own)
CreateBuffers ==
    /\ pc = "create_buffers"
    /\ buffers' = buffers \cup {ImageSizeBuffer, StagingBuffer, StorageBuffer}
    /\ Emit("create_buffers")
    /\ Goto("begin_pass")
    /\ UNCHANGED <<limit, workgroup_width, commands, submitted, mapState, chanVars,
                   dataVars, file>>

\* ------------------------------------------------------------ recording
\* main.rs:121-151: the bind groups (0: image size buffer, 1: storage buffer),
\* the encoder, the compute pass and what is set on it before the dispatch
BeginPass ==
    /\ pc = "begin_pass"
    /\ commands' = commands \o
         << [op |-> "begin_compute_pass"],
            [op |-> "set_pipeline"],
            [op |-> "set_bind_group", index |-> 0, buffer |-> "image size buffer"],
            [op |-> "set_bind_group", index |-> 1, buffer |-> "storage buffer"],
            [op |-> "insert_debug_marker"] >>
    /\ Goto("dispatch")
    /\ UNCHANGED <<limit, workgroup_width, buffers, submitted, mapState, chanVars,
                   dataVars, file, log>>

\* the arguments of dispatch_workgroups, main.rs:152-156 (u32 division truncates)
DispatchCommand(e) ==
    [op |-> "dispatch_workgroups", x |-> IMAGE_WIDTH \div e, y |-> IMAGE_HEIGHT \div e,
     z |-> 1]

\* main.rs:152-156: a zero edge panics in the division
DispatchWorkgroups ==
    /\ pc = "dispatch"
    /\ IF workgroup_width = 0
       THEN /\ Fail("DivideByZeroPanic")
            /\ commands' = commands
       ELSE /\ commands' = Append(commands, DispatchCommand(workgroup_width))
            /\ Goto("end_pass")
    /\ UNCHANGED <<limit, workgroup_width, buffers, submitted, mapState, chanVars,
                   dataVars, file, log>>

\* main.rs:157: drop(pass)
EndPass ==
    /\ pc = "end_pass"
    /\ commands' = Append(commands, [op |-> "end_compute_pass"])
    /\ Goto("copy")
    /\ UNCHANGED <<limit, workgroup_width, buffers, submitted, mapState, chanVars,
                   dataVars, file, log>>

\* the arguments of copy_buffer_to_buffer, main.rs:160-166
CopyCommand ==
    [op |-> "copy_buffer_to_buffer", src |-> "storage buffer", src_offset |-> 0,
     dst |-> "staging buffer", dst_offset |-> 0, size |-> BufferSize("staging buffer")]

\* the copy left out of the batch
CopyBufferToBufferLeftOut ==
    /\ pc = "copy"
    /\ Goto("submit")
    /\ UNCHANGED <<limit, workgroup_width, gpuVars, mapState, chanVars, dataVars, file, log>>

\* main.rs:160-167
CopyBufferToBuffer ==
    /\ pc = "copy"
    /\ commands' = Append(commands, CopyCommand)
    /\ Goto("submit")
    /\ UNCHANGED <<limit, workgroup_width, buffers, submitted, mapState, chanVars,
                   dataVars, file, log>>

\* main.rs:169: queue.submit(iter::once(encoder.finish()))
Submit ==
    /\ pc = "submit"
    /\ submitted' = Append(submitted, commands)
    /\ commands' = <<>>
    /\ Emit("submit")
    /\ Goto("map_async")
    /\ UNCHANGED <<limit, workgroup_width, buffers, mapState, chanVars, dataVars, file>>

\* ------------------------------------------------------------ readback
\* map_async, and then the receive with no device.poll between the two
MapAsyncNotPolled ==
    /\ pc = "map_async"
    /\ txAlive' = TRUE
    /\ rxAlive' = TRUE
    /\ cb' = "registered"
    /\ mapState' = "pending"
    /\ Emit("map_async")
    /\ pc' = "recv"
    /\ UNCHANGED <<outcome, fault, limit, workgroup_width, gpuVars, chan, sendFailed,
                   recvResult, dataVars, file>>

\* main.rs:172-176: the channel, and map_async with the callback that owns tx
MapAsync ==
    /\ pc = "map_async"
    /\ txAlive' = TRUE
    /\ rxAlive' = TRUE
    /\ cb' = "registered"
    /\ mapState' = "pending"
    /\ Emit("map_async")
    /\ pc' = "poll"
    /\ UNCHANGED <<outcome, fault, limit, workgroup_width, gpuVars, chan, sendFailed,
                   recvResult, dataVars, file>>

\* what the device makes of the mapping request while it is polled: it calls
\* the callback with Ok or with Err, or it drops the callback uncalled
MapOutcomes == {"ok", "err", "dropped"}

\* the callback of main.rs:175, |res| tx.send(res).unwrap(), called with res:
\* the send fails, and the unwrap panics, when the Receiver is gone; the
\* callback is FnOnce, tx goes with it
Callback(res) ==
    /\ cb' = "called"
    /\ txAlive' = FALSE
    /\ IF rxAlive
       THEN /\ chan' = Append(chan, res)
            /\ sendFailed' = sendFailed
            /\ log' = log \o <<"poll", IF res = "ok" THEN "send_ok" ELSE "send_err">>
            /\ Goto("recv")
       ELSE /\ chan' = chan
            /\ sendFailed' = TRUE
            /\ log' = log \o <<"poll", "send_failed">>
            /\ Fail("SendPanic")

\* main.rs:178: device.poll(Wait) returns when the submitted work is done and
\* the pending mapping is resolved
Poll ==
    /\ pc = "poll"
    /\ IF cb = "registered"
       THEN \E o \in MapOutcomes :
              IF o = "dropped"
              THEN /\ cb' = "dropped"
                   /\ txAlive' = FALSE
                   /\ mapState' = "failed"
                   /\ UNCHANGED <<chan, sendFailed>>
                   /\ Emit("poll")
                   /\ Goto("recv")
              ELSE /\ mapState' = IF o = "ok" THEN "mapped" ELSE "failed"
                   /\ Callback(o)
       ELSE /\ UNCHANGED <<cb, txAlive, mapState, chan, sendFailed>>
            /\ Emit("poll")
            /\ Goto("recv")
    /\ UNCHANGED <<limit, workgroup_width, gpuVars, recvResult, dataVars, file>>

\* main.rs:186: rx.recv()? blocks while the channel is empty and a Sender
\* lives; Err(RecvError) when it is empty and no Sender is left
Recv ==
    /\ pc = "recv"
    /\ chan # <<>> \/ ~txAlive
    /\ IF chan # <<>>
       THEN /\ recvResult' = Head(chan)
            /\ chan' = Tail(chan)
            /\ Emit("recv")
            /\ Goto("extract")
       ELSE /\ recvResult' = "closed"
            /\ chan' = chan
            /\ Emit("recv_closed")
            /\ Fail("LostResult")
    /\ UNCHANGED <<limit, workgroup_width, gpuVars, mapState, cb, txAlive, sendFailed,
                   dataVars, file>>

\* the mapped range read whatever the notification said
ExtractUnchecked ==
    /\ pc = "extract"
    /\ hasResult' = TRUE
    /\ resultLen' = StepByCount(BufferSize("staging buffer"))
    /\ Emit("get_mapped_range")
    /\ Goto("debug")
    /\ UNCHANGED <<limit, workgroup_width, gpuVars, mapState, chanVars, file>>

\* main.rs:186-193: .map(|_| get_mapped_range().iter().step_by(4)...collect())?
\* the closure runs on Ok alone; Err leaves through `?`
Extract ==
    /\ pc = "extract"
    /\ IF recvResult = "ok"
       THEN /\ hasResult' = TRUE
            /\ resultLen' = StepByCount(BufferSize("staging buffer"))
            /\ Emit("get_mapped_range")
            /\ Goto("debug")
       ELSE /\ UNCHANGED <<hasResult, resultLen, log>>
            /\ Fail("DeviceFault")
    /\ UNCHANGED <<limit, workgroup_width, gpuVars, mapState, chanVars, file>>

\* main.rs:195: &result[0..32] panics on a shorter result (the slice is taken
\* when the debug level is enabled; the result is never that short)
DebugSlice ==
    /\ pc = "debug"
    /\ IF DebugSliceEnd <= resultLen THEN Goto("unmap") ELSE Fail("SlicePanic")
    /\ UNCHANGED <<limit, workgroup_width, gpuVars, mapState, chanVars, dataVars, file, log>>

\* main.rs:197
Unmap ==
    /\ pc = "unmap"
    /\ mapState' = "unmapped"
    /\ Emit("unmap")
    /\ Goto("open")
    /\ UNCHANGED <<limit, workgroup_width, gpuVars, chanVars, dataVars, file>>

\* ------------------------------------------------------------ the file
\* main.rs:199-203: write, truncate, create: an existing file is emptied
OpenFile ==
    /\ pc = "open"
    /\ \E opened \in BOOLEAN :
         IF opened
         THEN /\ file' = [exists |-> TRUE, header |-> <<>>, payload |-> 0]
              /\ Emit("open")
              /\ Goto("write_header")
         ELSE /\ UNCHANGED <<file, log>>
              /\ Fail("IOFault")
    /\ UNCHANGED <<limit, workgroup_width, gpuVars, mapState, chanVars, dataVars>>

\* main.rs:204-205: write_all(header)?, which may fail after k of its bytes
WriteHeader ==
    /\ pc = "write_header"
    /\ LET header == Header(IMAGE_WIDTH, IMAGE_HEIGHT)
       IN  \E k \in 0..Len(header) :
             /\ file' = [file EXCEPT !.header = file.header \o SubSeq(header, 1, k)]
             /\ IF k = Len(header) THEN Goto("write_payload") ELSE Fail("IOFault")
    /\ Emit("write_header")
    /\ UNCHANGED <<limit, workgroup_width, gpuVars, mapState, chanVars, dataVars>>

\* how many bytes of an n-byte write_all reach the file: all, or fewer on an error
Written(n) == {k \in {0, 1, n \div 2, n - 1, n} : 0 <= k /\ k <= n}

\* main.rs:206: write_all(&result)?
WritePayload ==
    /\ pc = "write_payload"
    /\ \E k \in Written(resultLen) :
         /\ file' = [file EXCEPT !.payload = file.payload + k]
         /\ IF k = resultLen THEN Goto("return") ELSE Fail("IOFault")
    /\ Emit("write_payload")
    /\ UNCHANGED <<limit, workgroup_width, gpuVars, mapState, chanVars, dataVars>>

\* main.rs:209: Ok(())
Return ==
    /\ pc = "return"
    /\ pc' = "exited"
    /\ outcome' = "ok"
    /\ rxAlive' = FALSE
    /\ UNCHANGED <<fault, limit, workgroup_width, gpuVars, mapState, chanVars, dataVars,
                   file, log>>

\* ------------------------------------------------------------ specification
Next ==
    \/ InstallLogging
    \/ RequestAdapter
    \/ RequestDevice
    \/ PlanWorkgroup
    \/ LoadShader
    \/ CreateBuffers
    \/ BeginPass
    \/ DispatchWorkgroups
    \/ EndPass
    \/ CopyBufferToBuffer
    \/ Submit
    \/ MapAsync
    \/ Poll
    \/ Recv
    \/ Extract
    \/ DebugSlice
    \/ Unmap
    \/ OpenFile
    \/ WriteHeader
    \/ WritePayload
    \/ Return

Spec == Init /\ [][Next]_vars

\* main() is one thread: device.poll(Wait) returns once the device is done, and
\* rx.recv() returns once the channel holds a value or has no Sender left
LiveSpec == Spec /\ WF_vars(Poll) /\ WF_vars(Recv)

TypeOK ==
    /\ outcome \in {"running", "ok", "fault"}
    /\ limit \in Limits
    /\ workgroup_width \in Nat
    /\ mapState \in {"unmapped", "pending", "mapped", "failed"}
    /\ cb \in {"none", "registered", "called", "dropped"}
    /\ recvResult \in {"none", "ok", "err", "closed"}
    /\ resultLen \in Nat

\* ------------------------------------------------------------ reading the run
Count(ev) == Cardinality({i \in DOMAIN log : log[i] = ev})

\* the place of the first ev in the log, 0 when there is none
Pos(ev) == IF Count(ev) = 0 THEN 0 ELSE CHOOSE i \in DOMAIN log :
               log[i] = ev /\ \A j \in 1..(i - 1) : log[j] # ev

Planned == Count("plan") > 0

Divides(e, n) == e # 0 /\ n % e = 0

Pixels == IMAGE_WIDTH * IMAGE_HEIGHT

\* every command recorded so far, submitted or not
RECURSIVE Flatten(_)
Flatten(batches) ==
    IF batches = <<>> THEN <<>> ELSE Head(batches) \o Flatten(Tail(batches))

AllCommands == Flatten(submitted) \o commands

Ops(cmds) == [i \in DOMAIN cmds |-> cmds[i].op]

IsPrefix(s, t) == Len(s) <= Len(t) /\ s = SubSeq(t, 1, Len(s))

CompleteImage(f) ==
    /\ f.exists
    /\ f.header = Header(IMAGE_WIDTH, IMAGE_HEIGHT)
    /\ f.payload = Pixels

\* a reader of the header: "P5", white space, width, white space, height,
\* white space, maxval, one white space
DigitVal(c) == CHOOSE d \in 0..9 : Digits[d + 1] = c

RECURSIVE ParseDec(_)
ParseDec(s) ==
    IF s = <<>> THEN 0
    ELSE ParseDec(SubSeq(s, 1, Len(s) - 1)) * 10 + DigitVal(s[Len(s)])

ParseHeader(h) ==
    LET sp == CHOOSE i \in DOMAIN h : h[i] = " "
        nl == CHOOSE i \in DOMAIN h : i > sp /\ h[i] = "\n"
                                     /\ \A j \in (sp + 1)..(i - 1) : h[j] # "\n"
    IN  <<ParseDec(SubSeq(h, 4, sp - 1)), ParseDec(SubSeq(h, sp + 1, nl - 1))>>

\* ------------------------------------------------------------ the planner
EdgeDividesImage == Divides(workgroup_width, IMAGE_WIDTH) /\ Divides(workgroup_width, IMAGE_HEIGHT)

\* the largest e with e*e <= m that divides both dimensions (1 always does)
LargestDividingEdge(m) ==
    CHOOSE e \in 1..ISqrt(m) :
        /\ Divides(e, IMAGE_WIDTH) /\ Divides(e, IMAGE_HEIGHT)
        /\ \A k \in (e + 1)..ISqrt(m) :
             ~(Divides(k, IMAGE_WIDTH) /\ Divides(k, IMAGE_HEIGHT))

\* C1: once the workgroup edge is planned, an edge that does not evenly
\* divide the width or the height has ended the run in a ConfigurationFault,
\* with no buffer allocated and nothing submitted to the queue.
C1_FaultBeforeAllocation ==
    (Planned /\ workgroup_width >= 1 /\ ~EdgeDividesImage) =>
        /\ outcome = "fault"
        /\ fault = "ConfigurationFault"
        /\ buffers = {}
        /\ AllCommands = <<>>

\* C8: for every limit >= 1 the planned edge e has e*e <= limit, and e is the
\* largest such value that evenly divides both the width and the height.
C8_LargestDividingEdge ==
    (Planned /\ limit >= 1) =>
        /\ workgroup_width * workgroup_width <= limit
        /\ workgroup_width = LargestDividingEdge(limit)

\* the dispatches of the submitted batches
Dispatches ==
    {c \in {Flatten(submitted)[i] : i \in DOMAIN Flatten(submitted)} :
        c.op = "dispatch_workgroups"}

\* C9: in every run that submits work the dispatched grid (gx, gy, 1) covers
\* the image: gx * e = IMAGE_WIDTH and gy * e = IMAGE_HEIGHT.
C9_GridCoversImage ==
    \A c \in Dispatches :
        /\ c.x * workgroup_width = IMAGE_WIDTH
        /\ c.y * workgroup_width = IMAGE_HEIGHT
        /\ c.z = 1

\* ------------------------------------------------------------ the readback
MapRequested == Count("map_async") > 0

Sends == Count("send_ok") + Count("send_err")

\* C2: a run that requested the mapping has released it exactly once by the
\* time it ends, on the success path and on every failure path.
C2_UnmapExactlyOnce ==
    /\ Count("unmap") <= 1
    /\ (pc = "exited" /\ MapRequested) => Count("unmap") = 1

C4_ReadWhileMapped ==
    /\ Count("get_mapped_range") <= 1
    /\ Count("get_mapped_range") = 1 =>
         /\ recvResult = "ok"
         /\ hasResult
         /\ 0 < Pos("recv") /\ Pos("recv") < Pos("get_mapped_range")
         /\ Count("unmap") > 0 => Pos("get_mapped_range") < Pos("unmap")
    /\ Count("unmap") > 0 => Count("get_mapped_range") = 1
    /\ (pc = "extract" /\ recvResult = "ok") => mapState = "mapped"
    /\ hasResult => Count("get_mapped_range") = 1

C4_Witness == Count("unmap") = 1 /\ hasResult /\ recvResult = "ok"

\* ------------------------------------------------------------ the submission
BatchOrder ==
    <<"begin_compute_pass", "set_pipeline", "set_bind_group", "set_bind_group",
      "insert_debug_marker", "dispatch_workgroups", "end_compute_pass",
      "copy_buffer_to_buffer">>

\* C5: the commands are recorded in one fixed order (bind groups, one
\* dispatch, end of the pass, one full-size copy), the batch is submitted
\* once and whole, and the mapping is requested only after that submit.
C5_OneOrderedSubmit ==
    /\ Len(submitted) <= 1
    /\ Count("submit") = Len(submitted)
    /\ IsPrefix(Ops(AllCommands), BatchOrder)
    /\ Len(submitted) = 1 =>
         /\ Ops(submitted[1]) = BatchOrder
         /\ commands = <<>>
         /\ submitted[1][8].size = IMAGE_WIDTH * IMAGE_HEIGHT * 4
    /\ MapRequested => (Len(submitted) = 1 /\ Pos("submit") < Pos("map_async"))
    /\ mapState # "unmapped" => MapRequested

C5_Witness == MapRequested /\ Len(submitted) = 1 /\ mapState = "pending"

\* C10: from their allocation on the storage buffer and the staging buffer
\* have the same size, width * height * 4 bytes, and every copy recorded
\* moves that many bytes from offset 0 to offset 0, inside both buffers.
C10_BuffersAndCopySameSize ==
    /\ Count("create_buffers") > 0 =>
         /\ BufferSize("storage buffer") = BufferSize("staging buffer")
         /\ BufferSize("staging buffer") = IMAGE_WIDTH * IMAGE_HEIGHT * 4
    /\ \A i \in DOMAIN AllCommands :
         AllCommands[i].op = "copy_buffer_to_buffer" =>
           LET c == AllCommands[i]
           IN  /\ c.src = "storage buffer" /\ c.dst = "staging buffer"
               /\ c.src_offset = 0 /\ c.dst_offset = 0
               /\ c.size = IMAGE_WIDTH * IMAGE_HEIGHT * 4
               /\ c.src_offset + c.size <= BufferSize(c.src)
               /\ c.dst_offset + c.size <= BufferSize(c.dst)

C10_Witness ==
    /\ Len(submitted) = 1
    /\ \E i \in DOMAIN submitted[1] : submitted[1][i].op = "copy_buffer_to_buffer"

\* ------------------------------------------------------------ the image
\* C6: a result that was read back has width * height samples, and the file
\* of a run that succeeded is the header "P5\n4000 3000\n255\n", from which
\* the width and the height are read back, followed by width * height bytes.
\* (With the count always width * height, the claim's case of a differing
\* count does not arise.)
C6_SamplesAndFile ==
    /\ hasResult => resultLen = IMAGE_WIDTH * IMAGE_HEIGHT
    /\ outcome = "ok" =>
         /\ hasResult
         /\ file.exists
         /\ file.header = <<"P", "5", "\n", "4", "0", "0", "0", " ", "3", "0", "0", "0",
                            "\n", "2", "5", "5", "\n">>
         /\ ParseHeader(file.header) = <<IMAGE_WIDTH, IMAGE_HEIGHT>>
         /\ file.payload = ParseHeader(file.header)[1] * ParseHeader(file.header)[2]
         /\ file.payload = resultLen

C6_Witness == outcome = "ok" /\ file.payload = Pixels

\* C7: a run ends with the complete image written, or with a fault that left
\* image.pgm as it was: not created, not truncated, not partly written.
C7_NoPartialFile ==
    pc = "exited" =>
        \/ outcome = "ok" /\ CompleteImage(file)
        \/ outcome = "fault" /\ (~file.exists \/ CompleteImage(file))

====
